---- MODULE Spec2Model ----
(***************************************************************************)
(* A model of gl-test/src/math.rs: the fixed-size column vectors Vec3 and  *)
(* Vec4, the column-major 4x4 matrix Mat4, their operators and the named   *)
(* transform constructors.                                                 *)
(*                                                                         *)
(* Numbers.  An f32 is modelled by a reduced fraction <<n, d>> with d >= 0:*)
(* d > 0 is the finite value n/d, <<1,0>> and <<-1,0>> are the two         *)
(* infinities and <<0,0>> is NaN.  Arithmetic on these is exact, which is  *)
(* what f32 arithmetic is on the small integers the specifications draw    *)
(* their inputs from; a quotient that f32 would round (1/3, 3/5) is kept   *)
(* as the exact fraction.  Rounding, overflow and the sign of zero are     *)
(* outside the model.                                                      *)
(***************************************************************************)
EXTENDS Integers, Sequences, FiniteSets, TLC

VARIABLES pc, args, locals, ret

vars == <<pc, args, locals, ret>>

----------------------------------------------------------------------------
(* f32 *)

Abs(n) == IF n < 0 THEN -n ELSE n

Sign(n) == IF n < 0 THEN -1 ELSE IF n = 0 THEN 0 ELSE 1

RECURSIVE Gcd(_, _)
Gcd(a, b) == IF b = 0 THEN a ELSE Gcd(b, a % b)

\* The reduced fraction n/d (d of either sign; d = 0 gives an infinity or NaN).
Norm(n, d) ==
    IF d = 0 THEN <<Sign(n), 0>>
    ELSE IF d = 1 THEN <<n, 1>>
    ELSE LET g == Gcd(Abs(n), Abs(d))
         IN  <<Sign(d) * Sign(n) * (Abs(n) \div g), Abs(d) \div g>>

\* The f32 literal k.0
F(k) == <<k, 1>>

NaN == <<0, 0>>

FNeg(x) == <<-x[1], x[2]>>

FAdd(x, y) ==
    IF x[2] = 1 /\ y[2] = 1 THEN <<x[1] + y[1], 1>>
    ELSE IF x[2] = 0 /\ y[2] = 0 THEN (IF x = y THEN x ELSE NaN)
    ELSE Norm(x[1] * y[2] + y[1] * x[2], x[2] * y[2])

FSub(x, y) == FAdd(x, FNeg(y))

FMul(x, y) ==
    IF x[2] = 1 /\ y[2] = 1 THEN <<x[1] * y[1], 1>>
    ELSE Norm(x[1] * y[1], x[2] * y[2])

\* 1/y: 1/0 is +inf, 1/inf is 0, 1/NaN is NaN.
FRecip(y) ==
    IF y[1] = 0 THEN (IF y[2] = 0 THEN NaN ELSE <<1, 0>>)
    ELSE IF y[1] < 0 THEN <<-y[2], -y[1]>>
    ELSE <<y[2], y[1]>>

FDiv(x, y) == FMul(x, FRecip(y))

\* IEEE comparison: NaN equals nothing, itself included.
FEq(x, y) == x # NaN /\ y # NaN /\ x = y

FNe(x, y) == ~FEq(x, y)

FLt(x, y) ==
    /\ x # NaN
    /\ y # NaN
    /\ IF x[2] = 0 /\ y[2] = 0 THEN x[1] < y[1]
       ELSE x[1] * y[2] < y[1] * x[2]

\* The integer square root; exact on the perfect squares the inputs produce.
ISqrt(n) == CHOOSE r \in 0..n : r * r <= n /\ n < (r + 1) * (r + 1)

FSqrt(x) ==
    IF x[2] = 0 THEN (IF x[1] > 0 THEN x ELSE NaN)
    ELSE IF x[1] < 0 THEN NaN
    ELSE Norm(ISqrt(x[1]), ISqrt(x[2]))

----------------------------------------------------------------------------
(* define_vec!: Vec3 and Vec4 are arrays indexed from 0 *)

\* The array [s1, s2, ...] of the source, indexed from 0.
Arr(s) == [k \in 0..(Len(s) - 1) |-> s[k + 1]]

Size(v) == Cardinality(DOMAIN v)

\* $name::zero()
VecZero(size) == [k \in 0..(size - 1) |-> F(0)]

\* dot: result after the iterations i = 0 .. n-1 of its loop
RECURSIVE DotAcc(_, _, _)
DotAcc(self, other, n) ==
    IF n = 0 THEN F(0)
    ELSE FAdd(DotAcc(self, other, n - 1), FMul(self[n - 1], other[n - 1]))

Dot(self, other) == DotAcc(self, other, Size(self))

LengthSquared(self) == Dot(self, self)

Length(self) == FSqrt(LengthSquared(self))

\* normalize(&mut self): the value of self afterwards
Normalize(self) ==
    LET length == Length(self)
    IN  [i \in DOMAIN self |-> FDiv(self[i], length)]

VecAdd(self, other) == [i \in DOMAIN self |-> FAdd(self[i], other[i])]

VecSub(self, other) == [i \in DOMAIN self |-> FSub(self[i], other[i])]

\* PartialEq (derived): component-wise f32 equality
VecEq(a, b) == \A i \in DOMAIN a : FEq(a[i], b[i])

\* The cross product with a + for the - of its first component.
CrossPlus(self, other) ==
    Arr(<< FAdd(FMul(self[1], other[2]), FMul(self[2], other[1])),
           FSub(FMul(self[2], other[0]), FMul(self[0], other[2])),
           FSub(FMul(self[0], other[1]), FMul(self[1], other[0])) >>)

Cross(self, other) ==
    Arr(<< FSub(FMul(self[1], other[2]), FMul(self[2], other[1])),
           FSub(FMul(self[2], other[0]), FMul(self[0], other[2])),
           FSub(FMul(self[0], other[1]), FMul(self[1], other[0])) >>)

----------------------------------------------------------------------------
(* Mat4: m[col][row] *)

\* Mat4([[..], [..], [..], [..]]): the four inner arrays are the columns.
Mat4(cols) == Arr(<<Arr(cols[1]), Arr(cols[2]), Arr(cols[3]), Arr(cols[4])>>)

MatZero ==
    Mat4(<< <<F(0), F(0), F(0), F(0)>>,
            <<F(0), F(0), F(0), F(0)>>,
            <<F(0), F(0), F(0), F(0)>>,
            <<F(0), F(0), F(0), F(0)>> >>)

\* A slip in the last row of the literal (the row scale and translate end with).
IdentityLastZero ==
    Mat4(<< <<F(1), F(0), F(0), F(0)>>,
            <<F(0), F(1), F(0), F(0)>>,
            <<F(0), F(0), F(1), F(0)>>,
            <<F(0), F(0), F(0), F(0)>> >>)

Identity ==
    Mat4(<< <<F(1), F(0), F(0), F(0)>>,
            <<F(0), F(1), F(0), F(0)>>,
            <<F(0), F(0), F(1), F(0)>>,
            <<F(0), F(0), F(0), F(1)>> >>)

Scale(x, y, z) ==
    Mat4(<< <<x,    F(0), F(0), F(0)>>,
            <<F(0), y,    F(0), F(0)>>,
            <<F(0), F(0), z,    F(0)>>,
            <<F(0), F(0), F(0), F(1)>> >>)

Translate(x, y, z) ==
    Mat4(<< <<F(1), F(0), F(0), F(0)>>,
            <<F(0), F(1), F(0), F(0)>>,
            <<F(0), F(0), F(1), F(0)>>,
            <<x,    y,    z,    F(1)>> >>)

\* angle.cos() and angle.sin(): an angle is given by the values they return.
Cos(angle) == angle.cos

Sin(angle) == angle.sin

RotateX(angle) ==
    LET cos == Cos(angle)
        sin == Sin(angle)
    IN  Mat4(<< <<F(1), F(0), F(0),      F(0)>>,
                <<F(0), cos,  FNeg(sin), F(0)>>,
                <<F(0), sin,  cos,       F(0)>>,
                <<F(0), F(0), F(0),      F(1)>> >>)

RotateY(angle) ==
    LET cos == Cos(angle)
        sin == Sin(angle)
    IN  Mat4(<< <<cos,       F(0), sin,  F(0)>>,
                <<F(0),      F(1), F(0), F(0)>>,
                <<FNeg(sin), F(0), cos,  F(0)>>,
                <<F(0),      F(0), F(0), F(1)>> >>)

RotateZ(angle) ==
    LET cos == Cos(angle)
        sin == Sin(angle)
    IN  Mat4(<< <<cos,  FNeg(sin), F(0), F(0)>>,
                <<sin,  cos,       F(0), F(0)>>,
                <<F(0), F(0),      F(1), F(0)>>,
                <<F(0), F(0),      F(0), F(1)>> >>)

\* look_at with the translation taken from center instead of eye.
LookAtFromCenter(eye, center, up) ==
    LET z  == Normalize(VecSub(eye, center))
        x0 == Cross(up, z)
        y0 == Cross(z, x0)
        x  == Normalize(x0)
        y  == Normalize(y0)
    IN  Mat4(<< <<x[0], y[0], z[0], F(0)>>,
                <<x[1], y[1], z[1], F(0)>>,
                <<x[2], y[2], z[2], F(0)>>,
                <<FNeg(Dot(x, center)), FNeg(Dot(y, center)), FNeg(Dot(z, center)), F(1)>> >>)

LookAt(eye, center, up) ==
    LET z  == Normalize(VecSub(eye, center))
        x0 == Cross(up, z)
        y0 == Cross(z, x0)
        x  == Normalize(x0)
        y  == Normalize(y0)
    IN  Mat4(<< <<x[0], y[0], z[0], F(0)>>,
                <<x[1], y[1], z[1], F(0)>>,
                <<x[2], y[2], z[2], F(0)>>,
                <<FNeg(Dot(x, eye)), FNeg(Dot(y, eye)), FNeg(Dot(z, eye)), F(1)>> >>)

\* (fov_y / 2.0).tan(): a field of view is given by the value tan returns.
TanHalf(fov_y) == fov_y.tan_half

\* assert!(aspect != 0.0)
AssertAspect(aspect) == FNe(aspect, F(0))

\* An assertion that lets every pair of clipping distances through.
AssertZMissing(z_near, z_far) == TRUE

\* assert!(z_near != z_far)
AssertZ(z_near, z_far) == FNe(z_near, z_far)

\* The body of perspective with the entries [2][3] and [3][2] exchanged.
PerspectiveBodySwapped(fov_y, aspect, z_near, z_far) ==
    LET f      == FDiv(F(1), TanHalf(fov_y))
        z_diff == FSub(z_near, z_far)
    IN  [MatZero EXCEPT
            ![0][0] = FDiv(f, aspect),
            ![1][1] = f,
            ![2][2] = FDiv(FAdd(z_near, z_far), z_diff),
            ![3][2] = F(-1),
            ![2][3] = FDiv(FMul(FMul(F(2), z_near), z_far), z_diff)]

\* perspective after its assertions: from let f to the returned result
PerspectiveBody(fov_y, aspect, z_near, z_far) ==
    LET f      == FDiv(F(1), TanHalf(fov_y))
        z_diff == FSub(z_near, z_far)
    IN  [MatZero EXCEPT
            ![0][0] = FDiv(f, aspect),
            ![1][1] = f,
            ![2][2] = FDiv(FAdd(z_near, z_far), z_diff),
            ![2][3] = F(-1),
            ![3][2] = FDiv(FMul(FMul(F(2), z_near), z_far), z_diff)]

\* [[f32; 4]; 4]: a Mat4 has four columns of four rows.
MatOrder == 4

\* A range that takes its end in: 0..=4.
MatMulRangeInclusive == 4 + 1

\* for col in 0..4, for row in 0..4, for i in 0..4 of Mat4 * Mat4
MatMulRange == 4

\* for col in 0..4, for row in 0..4 of Mat4 * Vec4
MatVecRange == 4

\* The inner product with self indexed row-major: self[row][i] for self[i][row].
RECURSIVE MulAccRowMajor(_, _, _, _, _)
MulAccRowMajor(self, other, col, row, n) ==
    IF n = 0 THEN F(0)
    ELSE FAdd(MulAccRowMajor(self, other, col, row, n - 1),
              FMul(self[row][n - 1], other[col][n - 1]))

\* Mat4 * Mat4: result[col][row] after the iterations i = 0 .. n-1
RECURSIVE MulAcc(_, _, _, _, _)
MulAcc(self, other, col, row, n) ==
    IF n = 0 THEN F(0)
    ELSE FAdd(MulAcc(self, other, col, row, n - 1),
              FMul(self[n - 1][row], other[col][n - 1]))

\* The product with its operands taken in the other order.
MatMulSwapped(self, other) ==
    [col \in 0..3 |-> [row \in 0..3 |-> MulAcc(other, self, col, row, 4)]]

MatMul(self, other) ==
    [col \in 0..3 |-> [row \in 0..3 |-> MulAcc(self, other, col, row, 4)]]

\* The application with the matrix indexed row-major: self[row][col].
RECURSIVE ApplyAccRowMajor(_, _, _, _)
ApplyAccRowMajor(self, vec, row, n) ==
    IF n = 0 THEN F(0)
    ELSE FAdd(ApplyAccRowMajor(self, vec, row, n - 1), FMul(self[row][n - 1], vec[n - 1]))

\* Mat4 * Vec4: result[row] after the iterations col = 0 .. n-1
RECURSIVE ApplyAcc(_, _, _, _)
ApplyAcc(self, vec, row, n) ==
    IF n = 0 THEN F(0)
    ELSE FAdd(ApplyAcc(self, vec, row, n - 1), FMul(self[n - 1][row], vec[n - 1]))

MatVec(self, vec) == [row \in 0..3 |-> ApplyAcc(self, vec, row, 4)]

\* PartialEq (derived) on Mat4
MatEq(a, b) == \A col \in 0..3 : \A row \in 0..3 : FEq(a[col][row], b[col][row])

----------------------------------------------------------------------------
(* Inputs *)

MaxScale == 1

MaxTrans == 1

MaxPoint == 1

MaxSeed == 4

MaxAspect == 2

MaxZ == 2

MaxCenter == 1

MaxDist == 2

MaxUp == 2

MaxComp == 2

MaxIndex == 4

Vec3Of(t) == Arr(<<F(t[1]), F(t[2]), F(t[3])>>)

Vec4Of(t) == Arr(<<F(t[1]), F(t[2]), F(t[3]), F(t[4])>>)

\* The arguments of test_math
TestScale == <<2, 2, 2>>

TestTrans == <<1, 2, 3>>

TestOriginal == <<3, 3, 3, 1>>

ScaleArgs == ((-1..MaxScale) \X (-1..MaxScale) \X (-1..MaxScale)) \cup {TestScale}

TransArgs == ((0..MaxTrans) \X (0..MaxTrans) \X (0..MaxTrans)) \cup {TestTrans}

\* Points (w = 1), directions (w = 0) and other homogeneous vectors
Points ==
    ((-1..MaxPoint) \X (-1..MaxPoint) \X (-1..MaxPoint) \X (0..MaxPoint))
    \cup {TestOriginal}

\* The angle whose cosine is c and sine is s.
Angle(c, s) == [cos |-> c, sin |-> s]

\* The quarter turns and three angles with rational cosine and sine.
Angles ==
    { Angle(F(1), F(0)), Angle(F(0), F(1)), Angle(F(-1), F(0)), Angle(F(0), F(-1)),
      Angle(Norm(3, 5), Norm(4, 5)), Angle(Norm(-4, 5), Norm(3, 5)),
      Angle(Norm(5, 13), Norm(-12, 13)) }

QuarterTurn == Angle(F(0), F(1))

\* A matrix with no structure: sixteen small integers.
Dense(seed) ==
    [col \in 0..3 |-> [row \in 0..3 |-> F(((seed * (4 * col + row + 1)) % 7) - 3)]]

\* The matrices the algebraic laws are tried on: every entry a small integer.
Pool ==
    {MatZero, Identity,
     Scale(F(2), F(2), F(2)), Scale(F(2), F(3), F(4)), Scale(F(-1), F(0), F(1)),
     Translate(F(1), F(2), F(3)), Translate(F(-2), F(0), F(1)),
     RotateX(QuarterTurn), RotateY(QuarterTurn), RotateZ(QuarterTurn)}
    \cup {Dense(seed) : seed \in 1..MaxSeed}

----------------------------------------------------------------------------
(* test_math, for any scale, translation and vector *)

InitTestMath ==
    /\ pc = "test_math"
    /\ args = [op |-> "test_math"]
    /\ locals = <<>>
    /\ ret = <<>>

\* let scale = Mat4::scale(..)
TmScale ==
    /\ pc = "test_math"
    /\ \E s \in ScaleArgs :
          /\ args' = [s |-> s] @@ args
          /\ locals' = [scale |-> Scale(F(s[1]), F(s[2]), F(s[3]))]
    /\ pc' = "tm_trans"
    /\ UNCHANGED ret

\* let trans = Mat4::translate(..)
TmTrans ==
    /\ pc = "tm_trans"
    /\ \E t \in TransArgs :
          /\ args' = [t |-> t] @@ args
          /\ locals' = [trans |-> Translate(F(t[1]), F(t[2]), F(t[3]))] @@ locals
    /\ pc' = "tm_combined"
    /\ UNCHANGED ret

\* let combined = trans * scale
TmCombined ==
    /\ pc = "tm_combined"
    /\ locals' = [combined |-> MatMul(locals.trans, locals.scale)] @@ locals
    /\ pc' = "tm_apply"
    /\ UNCHANGED <<args, ret>>

\* combined * original
TmApply ==
    /\ pc = "tm_apply"
    /\ \E v \in Points :
          /\ args' = [original |-> v] @@ args
          /\ ret' = MatVec(locals.combined, Vec4Of(v))
    /\ pc' = "done"
    /\ UNCHANGED locals

NextTestMath == TmScale \/ TmTrans \/ TmCombined \/ TmApply

SpecTestMath == InitTestMath /\ [][NextTestMath]_vars

\* What scaling v by s and then translating it by t gives.
ScaledThenTranslated(s, t, v) ==
    Arr(<< FAdd(FMul(F(s[1]), F(v[1])), FMul(F(t[1]), F(v[4]))),
           FAdd(FMul(F(s[2]), F(v[2])), FMul(F(t[2]), F(v[4]))),
           FAdd(FMul(F(s[3]), F(v[3])), FMul(F(t[3]), F(v[4]))),
           F(v[4]) >>)

\* C1: (translate(t) * scale(s)) * v is (sx*vx + tx*w, sy*vy + ty*w, sz*vz + tz*w, w):
\* the scale acts first, the translation second; test_math's own arguments
\* give exactly (7, 8, 9, 1).
C1_ScaleThenTranslate ==
    pc = "done" =>
        /\ VecEq(ret, ScaledThenTranslated(args.s, args.t, args.original))
        /\ (args.s = TestScale /\ args.t = TestTrans /\ args.original = TestOriginal)
               => VecEq(ret, Vec4Of(<<7, 8, 9, 1>>))

C1_Witness ==
    /\ pc = "done"
    /\ args.s = TestScale /\ args.t = TestTrans /\ args.original = TestOriginal
    /\ ret = Vec4Of(<<7, 8, 9, 1>>)

----------------------------------------------------------------------------
(* Mat4 * Mat4 and Mat4 * Vec4 on the matrices of Pool *)

InitAlgebra ==
    /\ pc = "laws"
    /\ \E op \in {"identity", "assoc", "apply"} :
       \E a \in Pool, b \in Pool :
          \/ op = "identity" /\ b = a /\ args = [op |-> op, m |-> a]
          \/ op = "assoc" /\ \E c \in Pool : args = [op |-> op, a |-> a, b |-> b, c |-> c]
          \/ op = "apply" /\ \E v \in Points : args = [op |-> op, a |-> a, b |-> b, v |-> Vec4Of(v)]
    /\ locals = <<>>
    /\ ret = <<>>

\* identity() * m and m * identity()
MulIdentity ==
    /\ pc = "laws" /\ args.op = "identity"
    /\ ret' = [left |-> MatMul(Identity, args.m), right |-> MatMul(args.m, Identity)]
    /\ pc' = "done"
    /\ UNCHANGED <<args, locals>>

\* (a * b) * c and a * (b * c), with a * b and b * a
MulAssoc ==
    /\ pc = "laws" /\ args.op = "assoc"
    /\ LET ab == MatMul(args.a, args.b)
           ba == MatMul(args.b, args.a)
       IN  ret' = [left  |-> MatMul(ab, args.c),
                   right |-> MatMul(args.a, MatMul(args.b, args.c)),
                   ab    |-> ab,
                   ba    |-> ba]
    /\ pc' = "done"
    /\ UNCHANGED <<args, locals>>

\* (a * b) * v and a * (b * v)
MulApply ==
    /\ pc = "laws" /\ args.op = "apply"
    /\ ret' = [composed   |-> MatVec(MatMul(args.a, args.b), args.v),
               sequential |-> MatVec(args.a, MatVec(args.b, args.v))]
    /\ pc' = "done"
    /\ UNCHANGED <<args, locals>>

NextAlgebra == MulIdentity \/ MulAssoc \/ MulApply

SpecAlgebra == InitAlgebra /\ [][NextAlgebra]_vars

\* C3: identity() * M == M and M * identity() == M, entry for entry.
C3_IdentityIsUnit ==
    (pc = "done" /\ args.op = "identity") =>
        MatEq(ret.left, args.m) /\ MatEq(ret.right, args.m)

C3_Witness ==
    /\ pc = "done" /\ args.op = "identity"
    /\ args.m = Dense(2)
    /\ ret.left = Dense(2) /\ ret.right = Dense(2)

\* C4: (A*B)*C == A*(B*C) entry for entry, for all A, B, C with integer entries,
\* and the product is not commutative: translate(1,2,3) * scale(2,3,4) differs
\* from scale(2,3,4) * translate(1,2,3).
C4_AssociativeNotCommutative ==
    (pc = "done" /\ args.op = "assoc") =>
        /\ MatEq(ret.left, ret.right)
        /\ (args.a = Translate(F(1), F(2), F(3)) /\ args.b = Scale(F(2), F(3), F(4)))
               => ~MatEq(ret.ab, ret.ba)

C4_Witness ==
    /\ pc = "done" /\ args.op = "assoc"
    /\ args.a = Translate(F(1), F(2), F(3))
    /\ args.b = Scale(F(2), F(3), F(4))
    /\ args.c = Dense(1)
    /\ ret.left = ret.right
    /\ ret.ab # ret.ba
    /\ ret.left \notin Pool

\* C10: (A * B) * v == A * (B * v): applying a composed matrix is applying the
\* right-hand factor first and the left-hand factor second.
C10_CompositionIsSequentialApplication ==
    (pc = "done" /\ args.op = "apply") => VecEq(ret.composed, ret.sequential)

C10_Witness ==
    /\ pc = "done" /\ args.op = "apply"
    /\ args.a = Dense(1)
    /\ args.b = Translate(F(1), F(2), F(3))
    /\ args.v = Vec4Of(<<1, 0, 1, 1>>)
    /\ ret.composed = ret.sequential
    /\ ret.composed # MatVec(args.b, args.v)
    /\ ret.composed # VecZero(4)

----------------------------------------------------------------------------
(* rotate_x, rotate_y, rotate_z applied to a vector *)

InitRotate ==
    /\ pc = "rotate"
    /\ args = [op |-> "rotate"]
    /\ locals = <<>>
    /\ ret = <<>>

RotX ==
    /\ pc = "rotate"
    /\ \E angle \in Angles :
          /\ args' = [axis |-> "x", angle |-> angle] @@ args
          /\ locals' = [m |-> RotateX(angle)]
    /\ pc' = "rot_apply"
    /\ UNCHANGED ret

RotY ==
    /\ pc = "rotate"
    /\ \E angle \in Angles :
          /\ args' = [axis |-> "y", angle |-> angle] @@ args
          /\ locals' = [m |-> RotateY(angle)]
    /\ pc' = "rot_apply"
    /\ UNCHANGED ret

RotZ ==
    /\ pc = "rotate"
    /\ \E angle \in Angles :
          /\ args' = [axis |-> "z", angle |-> angle] @@ args
          /\ locals' = [m |-> RotateZ(angle)]
    /\ pc' = "rot_apply"
    /\ UNCHANGED ret

\* m * v
RotApply ==
    /\ pc = "rot_apply"
    /\ \E v \in Points :
          /\ args' = [v |-> Vec4Of(v)] @@ args
          /\ ret' = MatVec(locals.m, Vec4Of(v))
    /\ pc' = "done"
    /\ UNCHANGED locals

NextRotate == RotX \/ RotY \/ RotZ \/ RotApply

SpecRotate == InitRotate /\ [][NextRotate]_vars

\* C2: rotate_z maps (1,0,0,0) to (cos, sin, 0, 0), rotate_x maps (0,1,0,0) to
\* (0, cos, sin, 0) and rotate_y maps (0,0,1,0) to (sin, 0, cos, 0): a positive
\* angle turns counter-clockwise seen from the positive axis.
C2_RotationsCounterClockwise ==
    pc = "done" =>
        LET cos == Cos(args.angle)
            sin == Sin(args.angle)
        IN  /\ (args.axis = "z" /\ args.v = Vec4Of(<<1, 0, 0, 0>>))
                   => VecEq(ret, Arr(<<cos, sin, F(0), F(0)>>))
            /\ (args.axis = "x" /\ args.v = Vec4Of(<<0, 1, 0, 0>>))
                   => VecEq(ret, Arr(<<F(0), cos, sin, F(0)>>))
            /\ (args.axis = "y" /\ args.v = Vec4Of(<<0, 0, 1, 0>>))
                   => VecEq(ret, Arr(<<sin, F(0), cos, F(0)>>))

\* What the three constructors do instead: each maps its vector to the image
\* under the rotation by the opposite angle.
RotationsAsCoded ==
    pc = "done" =>
        LET cos == Cos(args.angle)
            sin == Sin(args.angle)
        IN  /\ (args.axis = "z" /\ args.v = Vec4Of(<<1, 0, 0, 0>>))
                   => VecEq(ret, Arr(<<cos, FNeg(sin), F(0), F(0)>>))
            /\ (args.axis = "x" /\ args.v = Vec4Of(<<0, 1, 0, 0>>))
                   => VecEq(ret, Arr(<<F(0), cos, FNeg(sin), F(0)>>))
            /\ (args.axis = "y" /\ args.v = Vec4Of(<<0, 0, 1, 0>>))
                   => VecEq(ret, Arr(<<FNeg(sin), F(0), cos, F(0)>>))

----------------------------------------------------------------------------
(* perspective *)

\* The field of view whose half has tangent t.
Fov(t) == [tan_half |-> t]

\* 90 degrees is Fov(F(1)); Fov(F(0)) is the zero field of view, whose f is
\* infinite.
Fovs == {Fov(F(1)), Fov(F(2)), Fov(Norm(1, 2)), Fov(F(0))}

InitPerspective ==
    /\ pc = "perspective"
    /\ \E fov_y \in Fovs, aspect \in -1..MaxAspect, z_near \in -1..MaxZ, z_far \in -1..MaxZ :
          args = [op |-> "perspective", fov_y |-> fov_y, aspect |-> F(aspect),
                  z_near |-> F(z_near), z_far |-> F(z_far)]
    /\ locals = <<>>
    /\ ret = <<>>

PerspAssertAspect ==
    /\ pc = "perspective"
    /\ \/ AssertAspect(args.aspect) /\ pc' = "assert_z"
       \/ ~AssertAspect(args.aspect) /\ pc' = "aborted"
    /\ UNCHANGED <<args, locals, ret>>

PerspAssertZ ==
    /\ pc = "assert_z"
    /\ \/ AssertZ(args.z_near, args.z_far) /\ pc' = "body"
       \/ ~AssertZ(args.z_near, args.z_far) /\ pc' = "aborted"
    /\ UNCHANGED <<args, locals, ret>>

PerspBody ==
    /\ pc = "body"
    /\ ret' = PerspectiveBody(args.fov_y, args.aspect, args.z_near, args.z_far)
    /\ pc' = "done"
    /\ UNCHANGED <<args, locals>>

NextPerspective == PerspAssertAspect \/ PerspAssertZ \/ PerspBody

SpecPerspective == InitPerspective /\ [][NextPerspective]_vars

\* The precondition of perspective fails.
PerspBadInput == FEq(args.aspect, F(0)) \/ FEq(args.z_near, args.z_far)

\* C5: perspective aborts exactly when aspect == 0 or z_near == z_far, before
\* anything of the result is computed; on every other input it runs on and
\* returns a matrix.
C5_PerspectiveAbortsExactlyOnBadInput ==
    /\ pc = "aborted" => (PerspBadInput /\ ret = <<>> /\ locals = <<>>)
    /\ pc = "body" => ~PerspBadInput
    /\ pc = "done" => (~PerspBadInput /\ DOMAIN ret = 0..3)
    /\ pc \in {"perspective", "assert_z", "body"} => ENABLED NextPerspective

C5_Witness ==
    /\ pc = "aborted"
    /\ args.aspect = F(1)
    /\ args.z_near = F(2) /\ args.z_far = F(2)
    /\ ret = <<>>

\* The entry perspective's formula gives for [col][row].
PerspEntry(col, row) ==
    LET f      == FDiv(F(1), args.fov_y.tan_half)
        z_diff == FSub(args.z_near, args.z_far)
    IN  CASE col = 0 /\ row = 0 -> FDiv(f, args.aspect)
          [] col = 1 /\ row = 1 -> f
          [] col = 2 /\ row = 2 -> FDiv(FAdd(args.z_near, args.z_far), z_diff)
          [] col = 2 /\ row = 3 -> F(-1)
          [] col = 3 /\ row = 2 -> FDiv(FMul(FMul(F(2), args.z_near), args.z_far), z_diff)
          [] OTHER -> F(0)

\* C6: the matrix perspective returns has M[0][0] = f/aspect, M[1][1] = f,
\* M[2][2] = (near+far)/(near-far), M[2][3] = -1, M[3][2] = 2*near*far/(near-far)
\* and 0 in its 11 other entries; so M[0][0] == M[1][1] when aspect == 1 and
\* M[3][2] < 0 when 0 < near < far.
C6_PerspectiveEntries ==
    pc = "done" =>
        /\ \A col \in 0..3 : \A row \in 0..3 : FEq(ret[col][row], PerspEntry(col, row))
        /\ FEq(args.aspect, F(1)) => FEq(ret[0][0], ret[1][1])
        /\ (FLt(F(0), args.z_near) /\ FLt(args.z_near, args.z_far)) => FLt(ret[3][2], F(0))

C6_Witness ==
    /\ pc = "done"
    /\ args.fov_y = Fov(F(1)) /\ args.aspect = F(1)
    /\ args.z_near = F(1) /\ args.z_far = F(2)
    /\ ret[2][3] = F(-1)
    /\ ret[0][0] = ret[1][1]
    /\ ret[2][2] = F(-3)
    /\ ret[3][2] = F(-4)

----------------------------------------------------------------------------
(* look_at, applied to the eye and to the center *)

\* The unit vector of axis k, times d.
OnAxis(k, d) == [i \in 0..2 |-> IF i = k THEN F(d) ELSE F(0)]

\* The scenario of the specification: eye, center, up.
SceneEye == Vec3Of(<<0, 0, 5>>)

SceneCenter == Vec3Of(<<0, 0, 0>>)

SceneUp == Vec3Of(<<0, 1, 0>>)

\* Views along an axis (eye = center included) from any center, with up along
\* an axis (the zero vector and the view's own axis included).
LookAtArgs ==
    { [eye |-> VecAdd(Vec3Of(c), OnAxis(k, d)), center |-> Vec3Of(c), up |-> OnAxis(j, u)] :
        c \in (-1..MaxCenter) \X (-1..MaxCenter) \X (-1..MaxCenter),
        k \in 0..2, d \in -MaxDist..MaxDist, j \in 0..2, u \in -1..MaxUp }
    \cup {[eye |-> SceneEye, center |-> SceneCenter, up |-> SceneUp]}

\* (x, y, z) as the point (x, y, z, 1)
PointOf(v) == Arr(<<v[0], v[1], v[2], F(1)>>)

InitLookAt ==
    /\ pc = "look_at"
    /\ \E a \in LookAtArgs : args = [op |-> "look_at"] @@ a
    /\ locals = <<>>
    /\ ret = <<>>

LookAtCall ==
    /\ pc = "look_at"
    /\ locals' = [view |-> LookAt(args.eye, args.center, args.up)]
    /\ pc' = "apply_eye"
    /\ UNCHANGED <<args, ret>>

\* view * (eye, 1)
LookAtApplyEye ==
    /\ pc = "apply_eye"
    /\ ret' = [eye |-> MatVec(locals.view, PointOf(args.eye))]
    /\ pc' = "apply_center"
    /\ UNCHANGED <<args, locals>>

\* view * (center, 1)
LookAtApplyCenter ==
    /\ pc = "apply_center"
    /\ ret' = [center |-> MatVec(locals.view, PointOf(args.center))] @@ ret
    /\ pc' = "done"
    /\ UNCHANGED <<args, locals>>

NextLookAt == LookAtCall \/ LookAtApplyEye \/ LookAtApplyCenter

SpecLookAt == InitLookAt /\ [][NextLookAt]_vars

\* eye != center and up is not parallel to eye - center
LookAtProper ==
    /\ ~VecEq(args.eye, args.center)
    /\ ~VecEq(Cross(args.up, VecSub(args.eye, args.center)), VecZero(3))

\* C7: for eye != center and up not parallel to eye - center (the view and up
\* along coordinate axes), look_at * (eye, 1) == (0,0,0,1) and look_at * (center, 1)
\* has x = y = 0 and z < 0; the scenario eye = (0,0,5), center = 0, up = (0,1,0)
\* is one such case.
C7_LookAtMapsEyeToOrigin ==
    (pc = "done" /\ LookAtProper) =>
        /\ VecEq(ret.eye, Vec4Of(<<0, 0, 0, 1>>))
        /\ FEq(ret.center[0], F(0))
        /\ FEq(ret.center[1], F(0))
        /\ FLt(ret.center[2], F(0))
        /\ FEq(ret.center[3], F(1))

C7_Witness ==
    /\ pc = "done"
    /\ args.eye = SceneEye /\ args.center = SceneCenter /\ args.up = SceneUp
    /\ LookAtProper
    /\ ret.eye = Vec4Of(<<0, 0, 0, 1>>)
    /\ ret.center = Vec4Of(<<0, 0, -5, 1>>)

----------------------------------------------------------------------------
(* Vec3::cross *)

InitCross ==
    /\ pc = "cross"
    /\ \E a \in (-MaxComp..MaxComp) \X (-MaxComp..MaxComp) \X (-MaxComp..MaxComp),
          b \in (-MaxComp..MaxComp) \X (-MaxComp..MaxComp) \X (-MaxComp..MaxComp) :
          args = [op |-> "cross", a |-> Vec3Of(a), b |-> Vec3Of(b)]
    /\ locals = <<>>
    /\ ret = <<>>

\* a.cross(b), b.cross(a) and a.cross(a)
CrossCall ==
    /\ pc = "cross"
    /\ ret' = [ab |-> Cross(args.a, args.b),
               ba |-> Cross(args.b, args.a),
               aa |-> Cross(args.a, args.a)]
    /\ pc' = "done"
    /\ UNCHANGED <<args, locals>>

NextCross == CrossCall

SpecCross == InitCross /\ [][NextCross]_vars

\* C8: every component of a.cross(b) is the negation of that component of
\* b.cross(a), with cross(a,b) = [a1*b2 - a2*b1, a2*b0 - a0*b2, a0*b1 - a1*b0];
\* so a.cross(a) is the zero vector.
C8_CrossAntiCommutative ==
    pc = "done" =>
        LET a == args.a
            b == args.b
        IN  /\ \A i \in 0..2 : FEq(ret.ab[i], FNeg(ret.ba[i]))
            /\ FEq(ret.ab[0], FSub(FMul(a[1], b[2]), FMul(a[2], b[1])))
            /\ FEq(ret.ab[1], FSub(FMul(a[2], b[0]), FMul(a[0], b[2])))
            /\ FEq(ret.ab[2], FSub(FMul(a[0], b[1]), FMul(a[1], b[0])))
            /\ VecEq(ret.aa, VecZero(3))

C8_Witness ==
    /\ pc = "done"
    /\ args.a = Vec3Of(<<1, 0, 0>>)
    /\ args.b = Vec3Of(<<0, 1, 0>>)
    /\ ret.ab = Vec3Of(<<0, 0, 1>>)
    /\ ret.ba = Vec3Of(<<0, 0, -1>>)

----------------------------------------------------------------------------
(* Every operation of the library, its loops one iteration at a time *)

LibVec3s == {Vec3Of(<<3, 4, 0>>), Vec3Of(<<0, -2, 0>>), Vec3Of(<<0, 0, 0>>)}

LibVec4s == {Vec4Of(<<1, 2, 2, 0>>), Vec4Of(<<1, 1, 1, 1>>), Vec4Of(<<0, 0, 0, 0>>)}

LibMats == {Dense(1), Translate(F(1), F(2), F(3))}

LibraryCalls ==
    {[op |-> "zero", size |-> n] : n \in {3, 4}}
    \cup {[op |-> o, self |-> a, other |-> b] :
            o \in {"dot", "add", "sub", "cross"}, a \in LibVec3s, b \in LibVec3s}
    \cup {[op |-> o, self |-> a, other |-> b] :
            o \in {"dot", "add", "sub"}, a \in LibVec4s, b \in LibVec4s}
    \cup {[op |-> o, self |-> a] :
            o \in {"length_squared", "length", "normalize"}, a \in LibVec3s \cup LibVec4s}
    \cup {[op |-> "index", self |-> a, i |-> i] :
            a \in LibVec3s \cup LibVec4s \cup LibMats, i \in 0..MaxIndex}
    \cup {[op |-> "mat_zero"], [op |-> "identity"]}
    \cup {[op |-> o, x |-> F(2), y |-> F(3), z |-> F(4)] : o \in {"scale", "translate"}}
    \cup {[op |-> o, angle |-> a] : o \in {"rotate_x", "rotate_y", "rotate_z"}, a \in Angles}
    \cup {[op |-> "look_at", eye |-> SceneEye, center |-> c, up |-> u] :
            c \in {SceneCenter, SceneEye}, u \in {SceneUp, SceneEye}}
    \cup {[op |-> "mul_mat", self |-> a, other |-> b] : a \in LibMats, b \in LibMats}
    \cup {[op |-> "mul_vec", self |-> a, vec |-> v] : a \in LibMats, v \in LibVec4s}

InitLibrary ==
    \/ /\ pc = "call"
       /\ args \in LibraryCalls
       /\ locals = <<>>
       /\ ret = <<>>
    \/ InitPerspective

\* The indices the next step hands to Index::index, each with the size of the
\* array it indexes.
Pending ==
    CASE pc = "dot_loop" /\ locals.i < Size(locals.self) ->
            {<<locals.i, Size(locals.self)>>, <<locals.i, Size(locals.other)>>}
      [] pc = "div_loop" /\ locals.i < Size(locals.self) ->
            {<<locals.i, Size(locals.self)>>}
      [] pc \in {"add_loop", "sub_loop"} /\ locals.i < Size(locals.self) ->
            {<<locals.i, Size(locals.self)>>, <<locals.i, Size(locals.other)>>,
             <<locals.i, Size(locals.result)>>}
      [] pc = "mm_loop" /\ locals.col < MatMulRange ->
            {<<locals.i, MatOrder>>, <<locals.row, MatOrder>>, <<locals.col, MatOrder>>}
      [] pc = "mv_loop" /\ locals.col < MatVecRange ->
            {<<locals.row, MatOrder>>, <<locals.col, MatOrder>>}
      [] pc = "call" /\ args.op = "index" -> {<<args.i, Size(args.self)>>}
      [] pc = "call" /\ args.op \in {"cross", "look_at"} -> {<<0, 3>>, <<1, 3>>, <<2, 3>>}
      [] OTHER -> {}

\* The bounds check of an indexing: index < len.
InRange(p) == p[1] \in 0..(p[2] - 1)

IndicesOk == \A p \in Pending : InRange(p)

\* An index out of range panics.
Panic ==
    /\ pc \notin {"done", "aborted"}
    /\ ~IndicesOk
    /\ pc' = "aborted"
    /\ UNCHANGED <<args, locals, ret>>

\* An operation without a loop returns value.
Return(value) ==
    /\ pc = "call"
    /\ IndicesOk
    /\ ret' = value
    /\ pc' = "done"
    /\ UNCHANGED <<args, locals>>

CallZero == args.op = "zero" /\ Return(VecZero(args.size))

CallCross == args.op = "cross" /\ Return(Cross(args.self, args.other))

\* self[i], the index the caller's
CallIndex == args.op = "index" /\ Return(args.self[args.i])

CallMatZero == args.op = "mat_zero" /\ Return(MatZero)

CallIdentity == args.op = "identity" /\ Return(Identity)

CallScale == args.op = "scale" /\ Return(Scale(args.x, args.y, args.z))

CallTranslate == args.op = "translate" /\ Return(Translate(args.x, args.y, args.z))

CallRotateX == args.op = "rotate_x" /\ Return(RotateX(args.angle))

CallRotateY == args.op = "rotate_y" /\ Return(RotateY(args.angle))

CallRotateZ == args.op = "rotate_z" /\ Return(RotateZ(args.angle))

CallLookAt == args.op = "look_at" /\ Return(LookAt(args.eye, args.center, args.up))

\* dot, as called or through length_squared, length and normalize
DotEnter ==
    /\ pc = "call"
    /\ args.op \in {"dot", "length_squared", "length", "normalize"}
    /\ locals' = [self   |-> args.self,
                  other  |-> IF args.op = "dot" THEN args.other ELSE args.self,
                  result |-> F(0),
                  i      |-> 0,
                  steps  |-> 0,
                  trips  |-> <<>>]
    /\ pc' = "dot_loop"
    /\ UNCHANGED <<args, ret>>

\* result += self[i] * other[i]
DotStep ==
    /\ pc = "dot_loop"
    /\ locals.i < Size(locals.self)
    /\ IndicesOk
    /\ locals' = [locals EXCEPT
                    !.result = FAdd(@, FMul(locals.self[locals.i], locals.other[locals.i])),
                    !.i = @ + 1,
                    !.steps = @ + 1]
    /\ UNCHANGED <<pc, args, ret>>

\* dot, length_squared and length return
DotReturn ==
    /\ pc = "dot_loop"
    /\ locals.i >= Size(locals.self)
    /\ args.op \in {"dot", "length_squared", "length"}
    /\ ret' = IF args.op = "length" THEN FSqrt(locals.result) ELSE locals.result
    /\ locals' = [locals EXCEPT !.trips = Append(@, locals.steps)]
    /\ pc' = "done"
    /\ UNCHANGED args

\* let length = self.length()
NormalizeLength ==
    /\ pc = "dot_loop"
    /\ locals.i >= Size(locals.self)
    /\ args.op = "normalize"
    /\ locals' = [self   |-> locals.self,
                  length |-> FSqrt(locals.result),
                  i      |-> 0,
                  steps  |-> 0,
                  trips  |-> Append(locals.trips, locals.steps)]
    /\ pc' = "div_loop"
    /\ UNCHANGED <<args, ret>>

\* self[i] /= length
DivStep ==
    /\ pc = "div_loop"
    /\ locals.i < Size(locals.self)
    /\ IndicesOk
    /\ locals' = [locals EXCEPT
                    !.self[locals.i] = FDiv(@, locals.length),
                    !.i = @ + 1,
                    !.steps = @ + 1]
    /\ UNCHANGED <<pc, args, ret>>

\* normalize returns: ret is self afterwards
DivReturn ==
    /\ pc = "div_loop"
    /\ locals.i >= Size(locals.self)
    /\ ret' = locals.self
    /\ locals' = [locals EXCEPT !.trips = Append(@, locals.steps)]
    /\ pc' = "done"
    /\ UNCHANGED args

\* let mut result = $name::zero() of add and of sub
AddSubEnter ==
    /\ pc = "call"
    /\ args.op \in {"add", "sub"}
    /\ locals' = [self   |-> args.self,
                  other  |-> args.other,
                  result |-> VecZero(Size(args.self)),
                  i      |-> 0,
                  steps  |-> 0,
                  trips  |-> <<>>]
    /\ pc' = IF args.op = "add" THEN "add_loop" ELSE "sub_loop"
    /\ UNCHANGED <<args, ret>>

\* result[i] = self[i] + other[i]
AddStep ==
    /\ pc = "add_loop"
    /\ locals.i < Size(locals.self)
    /\ IndicesOk
    /\ locals' = [locals EXCEPT
                    !.result[locals.i] = FAdd(locals.self[locals.i], locals.other[locals.i]),
                    !.i = @ + 1,
                    !.steps = @ + 1]
    /\ UNCHANGED <<pc, args, ret>>

\* result[i] = self[i] - other[i]
SubStep ==
    /\ pc = "sub_loop"
    /\ locals.i < Size(locals.self)
    /\ IndicesOk
    /\ locals' = [locals EXCEPT
                    !.result[locals.i] = FSub(locals.self[locals.i], locals.other[locals.i]),
                    !.i = @ + 1,
                    !.steps = @ + 1]
    /\ UNCHANGED <<pc, args, ret>>

AddSubReturn ==
    /\ pc \in {"add_loop", "sub_loop"}
    /\ locals.i >= Size(locals.self)
    /\ ret' = locals.result
    /\ locals' = [locals EXCEPT !.trips = Append(@, locals.steps)]
    /\ pc' = "done"
    /\ UNCHANGED args

\* let mut result = Mat4::zero() of Mat4 * Mat4
MmEnter ==
    /\ pc = "call"
    /\ args.op = "mul_mat"
    /\ locals' = [self |-> args.self, other |-> args.other, result |-> MatZero,
                  col |-> 0, row |-> 0, i |-> 0, steps |-> 0, trips |-> <<>>]
    /\ pc' = "mm_loop"
    /\ UNCHANGED <<args, ret>>

\* result[col][row] += self[i][row] * other[col][i], and on to the next i, row, col
MmStep ==
    /\ pc = "mm_loop"
    /\ locals.col < MatMulRange
    /\ IndicesOk
    /\ LET col == locals.col
           row == locals.row
           i   == locals.i
           lastI   == i + 1 >= MatMulRange
           lastRow == row + 1 >= MatMulRange
       IN  locals' = [locals EXCEPT
                        !.result[col][row] =
                            FAdd(@, FMul(locals.self[i][row], locals.other[col][i])),
                        !.i   = IF lastI THEN 0 ELSE i + 1,
                        !.row = IF ~lastI THEN row ELSE IF lastRow THEN 0 ELSE row + 1,
                        !.col = IF lastI /\ lastRow THEN col + 1 ELSE col,
                        !.steps = @ + 1]
    /\ UNCHANGED <<pc, args, ret>>

MmReturn ==
    /\ pc = "mm_loop"
    /\ locals.col >= MatMulRange
    /\ ret' = locals.result
    /\ locals' = [locals EXCEPT !.trips = Append(@, locals.steps)]
    /\ pc' = "done"
    /\ UNCHANGED args

\* let mut result = Vec4::zero() of Mat4 * Vec4
MvEnter ==
    /\ pc = "call"
    /\ args.op = "mul_vec"
    /\ locals' = [self |-> args.self, vec |-> args.vec, result |-> VecZero(4),
                  col |-> 0, row |-> 0, steps |-> 0, trips |-> <<>>]
    /\ pc' = "mv_loop"
    /\ UNCHANGED <<args, ret>>

\* result[row] += self[col][row] * vec[col], and on to the next row, col
MvStep ==
    /\ pc = "mv_loop"
    /\ locals.col < MatVecRange
    /\ IndicesOk
    /\ LET col == locals.col
           row == locals.row
           lastRow == row + 1 >= MatVecRange
       IN  locals' = [locals EXCEPT
                        !.result[row] = FAdd(@, FMul(locals.self[col][row], locals.vec[col])),
                        !.row = IF lastRow THEN 0 ELSE row + 1,
                        !.col = IF lastRow THEN col + 1 ELSE col,
                        !.steps = @ + 1]
    /\ UNCHANGED <<pc, args, ret>>

MvReturn ==
    /\ pc = "mv_loop"
    /\ locals.col >= MatVecRange
    /\ ret' = locals.result
    /\ locals' = [locals EXCEPT !.trips = Append(@, locals.steps)]
    /\ pc' = "done"
    /\ UNCHANGED args

\* The operations without a loop
NextCalls ==
    \/ CallZero \/ CallCross \/ CallIndex
    \/ CallMatZero \/ CallIdentity \/ CallScale \/ CallTranslate
    \/ CallRotateX \/ CallRotateY \/ CallRotateZ \/ CallLookAt

\* The operations with loops
NextLoops ==
    \/ DotEnter \/ DotStep \/ DotReturn
    \/ NormalizeLength \/ DivStep \/ DivReturn
    \/ AddSubEnter \/ AddStep \/ SubStep \/ AddSubReturn
    \/ MmEnter \/ MmStep \/ MmReturn
    \/ MvEnter \/ MvStep \/ MvReturn

NextLibrary == NextCalls \/ NextLoops \/ Panic \/ NextPerspective

SpecLibrary == InitLibrary /\ [][NextLibrary]_vars

\* The operations that run a loop, and the iterations each of their loops makes.
LoopOps ==
    {"dot", "length_squared", "length", "normalize", "add", "sub", "mul_mat", "mul_vec"}

\* A call of an operation without a loop is about to return.
AboutToReturn == pc = "call" /\ args.op \notin LoopOps /\ IndicesOk

ExpectedTrips ==
    CASE args.op \in {"dot", "length_squared", "length", "add", "sub"} -> <<Size(args.self)>>
      [] args.op = "normalize" -> <<Size(args.self), Size(args.self)>>
      [] args.op = "mul_vec" -> <<16>>
      [] args.op = "mul_mat" -> <<64>>

\* What a finished call returns, by the operators of the library.
Returned ==
    CASE args.op = "dot" -> Dot(args.self, args.other)
      [] args.op = "length_squared" -> LengthSquared(args.self)
      [] args.op = "length" -> Length(args.self)
      [] args.op = "normalize" -> Normalize(args.self)
      [] args.op = "add" -> VecAdd(args.self, args.other)
      [] args.op = "sub" -> VecSub(args.self, args.other)
      [] args.op = "mul_mat" -> MatMul(args.self, args.other)
      [] args.op = "mul_vec" -> MatVec(args.self, args.vec)

\* The loops, run to their ends, compute the operators the other specifications use.
LoopsComputeOperators ==
    (pc = "done" /\ args.op \in LoopOps) => ret = Returned

\* C9: every operation other than perspective runs its loops to their ends
\* (N iterations for a vector of size N, 16 for Mat4 * Vec4, 64 for Mat4 * Mat4)
\* and returns: every index the library computes is in range, and a call aborts
\* only by an assertion of perspective or by an index of the caller's that is
\* out of range.
C9_LibraryOperationsAreTotal ==
    /\ pc = "aborted" =>
          \/ args.op = "perspective"
          \/ args.op = "index" /\ args.i \notin 0..(Size(args.self) - 1)
    /\ args.op # "index" => IndicesOk
    /\ (pc = "done" /\ args.op \in LoopOps) => locals.trips = ExpectedTrips
    /\ (pc = "done" /\ args.op \notin LoopOps) => locals = <<>>
    /\ pc \notin {"done", "aborted"} =>
          AboutToReturn \/ ENABLED (NextLoops \/ Panic \/ NextPerspective)

C9_Witness ==
    /\ pc = "done"
    /\ args.op = "mul_mat"
    /\ args.self = Translate(F(1), F(2), F(3))
    /\ args.other = Dense(1)
    /\ locals.trips = <<64>>
    /\ locals.col = 4
    /\ ret = MatMul(args.self, args.other)

----------------------------------------------------------------------------
Init ==
    \/ InitTestMath \/ InitAlgebra \/ InitRotate
    \/ InitPerspective \/ InitLookAt \/ InitCross \/ InitLibrary

Next ==
    \/ NextTestMath \/ NextAlgebra \/ NextRotate
    \/ NextPerspective \/ NextLookAt \/ NextCross \/ NextLibrary

Spec == Init /\ [][Next]_vars
====
